---- MODULE Spec2Model ----
(***************************************************************************)
(* The request handlers of server/routes.ts over the tables of the shared  *)
(* schema, as reached through server/storage.ts.  Every `await` of a       *)
(* handler is one step: the storage or collaborator call takes effect and  *)
(* the handler runs on to its next `await` (or to its response).           *)
(***************************************************************************)
EXTENDS Integers, Sequences, FiniteSets, TLC

\* ------------------------------------------------------------------ bounds
MaxJobs == 2
MaxCap == 2
ExtraHistory == 1
MaxRows == 2
MaxCalls == 3
MaxUploads == 1

\* ------------------------------------------------------- program constants
DefaultLimit == 50
DefaultMaxApplications == 5

\* ------------------------------------------------------------ value spaces
Users == {"u1", "u2"}
Companies == {"acme", "globex"}
Titles == {"dev"}
Inv == {1, 2}

JobPostings == [company : Companies, title : Titles, contactEmail : BOOLEAN]

Statuses == {"sent", "pending", "responded", "failed"}

VARIABLES
    applications,   \* table applications, in insertion (appliedAt) order
    cvs,            \* table cvs, in insertion (uploadedAt) order
    jobPreferences, \* table job_preferences
    catalogue,      \* the postings the job-search provider holds
    emails,         \* every call of emailService.sendJobApplication so far
    auto,           \* auto[i]: the locals of auto-apply invocation i
    apply,          \* the locals of the POST /api/jobs/apply request in flight
    post,           \* post[i]: the locals of job-preferences POST request i
    users,          \* table users: users[u] is the row of user u
    upload,         \* the locals of the POST /api/cvs/upload request in flight
    extract,        \* the calls of extractDataFromText under observation
    parse           \* the call of parseCV in flight

vars == <<applications, cvs, jobPreferences, catalogue, emails, auto, apply, post,
          users, upload, extract, parse>>

\* --------------------------------------------------------------- sequences
Min(a, b) == IF a <= b THEN a ELSE b

Take(s, n) == SubSeq(s, 1, Min(n, Len(s)))

Reverse(s) == [k \in 1..Len(s) |-> s[Len(s) + 1 - k]]

SeqsUpTo(S, n) == UNION {[1..k -> S] : k \in 0..n}

Range(s) == {s[k] : k \in 1..Len(s)}

\* ----------------------------------------------------------------- storage
Undefined == "undefined"

\* DatabaseStorage.getUserJobPreferences: `const [preferences] = select ... where
\* userId`, no ORDER BY: any of the user's rows may come first; 0 is undefined.
GetUserJobPreferences(userId) ==
    LET mine == {k \in 1..Len(jobPreferences) : jobPreferences[k].userId = userId}
    IN  IF mine = {} THEN {0} ELSE mine

\* Mutant: the rows come oldest first (asc instead of desc).
GetUserCvsAscending(userId) ==
    SelectSeq(cvs, LAMBDA c : c.userId = userId)

\* DatabaseStorage.getUserCvs: the user's rows, most recently uploaded first.
GetUserCvs(userId) ==
    Reverse(SelectSeq(cvs, LAMBDA c : c.userId = userId))

\* DatabaseStorage.getUserApplications: the user's rows, most recently applied
\* first, cut to `limit` rows.
GetUserApplications(userId, limit) ==
    Take(Reverse(SelectSeq(applications, LAMBDA a : a.userId = userId)), limit)

\* Mutant: a unique (userId, company, jobTitle) would turn a second insert of
\* the same posting away.
CreateApplicationUnique(ins) ==
    IF \E k \in 1..Len(applications) :
          /\ applications[k].userId = ins.userId
          /\ applications[k].company = ins.company
          /\ applications[k].jobTitle = ins.jobTitle
    THEN applications
    ELSE Append(applications,
                [id |-> Len(applications) + 1, userId |-> ins.userId,
                 jobTitle |-> ins.jobTitle, company |-> ins.company,
                 applicationMethod |-> ins.applicationMethod,
                 status |-> IF ins.status = Undefined THEN "sent" ELSE ins.status,
                 responseData |-> "null", by |-> ins.by, dup |-> ins.dup])

\* DatabaseStorage.createApplication: insert ... returning.  status takes the
\* column default "sent" when the insert carries none.  `by` and `dup` are
\* history fields of the model: the auto-apply invocation that inserted the row
\* (0: none) and whether the user's whole history held the row's (company, title)
\* when that invocation read the history.
CreateApplication(ins) ==
    Append(applications,
           [id |-> Len(applications) + 1,
            userId |-> ins.userId,
            jobTitle |-> ins.jobTitle,
            company |-> ins.company,
            applicationMethod |-> ins.applicationMethod,
            status |-> IF ins.status = Undefined THEN "sent" ELSE ins.status,
            responseData |-> "null",
            by |-> ins.by,
            dup |-> ins.dup])

\* DatabaseStorage.getUserApplicationStats: select ... where userId, then one
\* count per status by filter.
GetUserApplicationStats(userId) ==
    LET userApplications == SelectSeq(applications, LAMBDA app : app.userId = userId)
        Count(status) ==
            Len(SelectSeq(userApplications, LAMBDA app : app.status = status))
    IN  [total |-> Len(userApplications),
         sent |-> Count("sent"),
         pending |-> Count("pending"),
         responded |-> Count("responded"),
         failed |-> Count("failed")]

\* Mutant: the update has lost its `where` clause.
UpdateApplicationStatusAll(id, status, responseData) ==
    [k \in 1..Len(applications) |->
        [applications[k] EXCEPT
            !.status = status,
            !.responseData = IF responseData # "null" THEN responseData ELSE @]]

\* Mutant: the update is keyed by the user of the row, not by the row.
UpdateApplicationStatusOfUser(id, status, responseData) ==
    [k \in 1..Len(applications) |->
        IF \E l \in 1..Len(applications) :
              applications[l].id = id /\ applications[l].userId = applications[k].userId
        THEN [applications[k] EXCEPT
                !.status = status,
                !.responseData = IF responseData # "null" THEN responseData ELSE @]
        ELSE applications[k]]

\* DatabaseStorage.updateApplicationStatus: update ... where id.
UpdateApplicationStatus(id, status, responseData) ==
    [k \in 1..Len(applications) |->
        IF applications[k].id = id
        THEN [applications[k] EXCEPT
                !.status = status,
                !.responseData = IF responseData # "null" THEN responseData ELSE @]
        ELSE applications[k]]

\* jobSearchService.searchJobs(keywords, location, limit): at most `limit` of the
\* provider's postings, in the provider's order.
SearchJobs(limit) == Take(catalogue, limit)

\* ------------------------------------------------- POST /api/jobs/auto-apply
NoResponse == [code |-> 0, message |-> "", applications |-> 0, jobsFound |-> 0]

Response(code, message) ==
    [code |-> code, message |-> message, applications |-> 0, jobsFound |-> 0]

Idle ==
    [pc |-> "idle", userId |-> "u1", maxApplications |-> 0, preferences |-> 0,
     userCvs |-> <<>>, jobs |-> <<>>, idx |-> 0, applications |-> <<>>,
     applicationCount |-> 0, application |-> 0, dup |-> FALSE,
     res |-> NoResponse,
     cvLoaded |-> FALSE, searched |-> FALSE, caught |-> 0, fault |-> "none"]

\* Mutant: the preferences check is missing.
NoPreferencesUnchecked(preferences) == FALSE

\* `if (!preferences)`
NoPreferences(preferences) == preferences = 0

\* Mutant: the CV check is missing.
NoCvUnchecked(userCvs) == FALSE

\* `if (userCvs.length === 0)`
NoCv(userCvs) == Len(userCvs) = 0

\* Mutant: the loop guard is off by one.
CapReachedOffByOne(applicationCount, maxApplications) ==
    applicationCount > maxApplications

\* `if (applicationCount >= maxApplications) break;`
CapReached(applicationCount, maxApplications) == applicationCount >= maxApplications

\* Mutant: the response counts the postings gone through, not the rows pushed.
Respond200Processed(r) ==
    [r EXCEPT !.pc = "done",
              !.res = [code |-> 200, message |-> "Successfully applied",
                       applications |-> r.idx - 1,
                       jobsFound |-> Len(r.jobs)]]

\* res.json({ message, applications: applications.length, jobsFound: jobs.length })
Respond200(r) ==
    [r EXCEPT !.pc = "done",
              !.res = [code |-> 200, message |-> "Successfully applied",
                       applications |-> Len(r.applications),
                       jobsFound |-> Len(r.jobs)]]

\* The head of `for (const job of jobs)`: leave the loop when the postings are
\* exhausted or the cap is reached, and respond; otherwise enter the iteration,
\* whose first await is the history read.
LoopHead(r) ==
    IF r.idx > Len(r.jobs) \/ CapReached(r.applicationCount, r.maxApplications)
    THEN Respond200(r)
    ELSE [r EXCEPT !.pc = "history"]

\* Mutant: the iteration ends without moving to the next posting.
SameJob(r) == LoopHead([r EXCEPT !.application = 0, !.dup = FALSE])

\* The end of one iteration (also `continue`): on to the next posting.
NextJob(r) == LoopHead([r EXCEPT !.idx = @ + 1, !.application = 0, !.dup = FALSE])

\* The outer `catch (error) { res.status(500)... }`.
Respond500(r, where) ==
    [r EXCEPT !.pc = "done", !.res = Response(500, "Auto-apply failed"),
              !.fault = where]

\* Mutant: no inner try/catch, the error reaches the outer catch.
CatchAndRethrow(r) == Respond500(r, "loop")

\* The inner `catch (error) { console.error(...) }`: logged, and the loop goes on.
CatchAndContinue(r) == NextJob([r EXCEPT !.caught = @ + 1])

\* maxApplications as the handler holds it: the number the body carries, or the
\* default when the body carries none.
MaxApplicationsValues == (0..MaxCap) \cup {DefaultMaxApplications}

\* const { userId, maxApplications = 5 } = req.body; then the first await.
AutoApplyStart(i) ==
    /\ auto[i].pc = "idle"
    /\ \E userId \in Users, maxApplications \in MaxApplicationsValues :
          auto' = [auto EXCEPT ![i] =
                     [@ EXCEPT !.pc = "prefs", !.userId = userId,
                               !.maxApplications = maxApplications]]
    /\ UNCHANGED <<applications, cvs, jobPreferences, catalogue, emails, apply, post, users, upload, extract, parse>>

\* await storage.getUserJobPreferences(userId) returns; 400 without preferences.
AutoApplyPreferences(i) ==
    /\ auto[i].pc = "prefs"
    /\ \E p \in GetUserJobPreferences(auto[i].userId) :
          auto' = [auto EXCEPT ![i] =
                     IF NoPreferences(p)
                     THEN [@ EXCEPT !.pc = "done",
                                    !.res = Response(400, "Please set job preferences first")]
                     ELSE [@ EXCEPT !.pc = "cvs", !.preferences = p]]
    /\ UNCHANGED <<applications, cvs, jobPreferences, catalogue, emails, apply, post, users, upload, extract, parse>>

\* await storage.getUserCvs(userId) returns; 400 without a CV.  Otherwise the
\* arguments of searchJobs are evaluated (preferences.keywords throws a TypeError
\* on an undefined preferences) and the search is awaited.
AutoApplyCvs(i) ==
    /\ auto[i].pc = "cvs"
    /\ LET userCvs == GetUserCvs(auto[i].userId)
           r == [auto[i] EXCEPT !.userCvs = userCvs, !.cvLoaded = TRUE]
       IN  auto' = [auto EXCEPT ![i] =
                     IF NoCv(userCvs)
                     THEN [r EXCEPT !.pc = "done",
                                    !.res = Response(400, "No CV found. Please upload a CV first.")]
                     ELSE IF r.preferences = 0
                     THEN Respond500(r, "search")
                     ELSE [r EXCEPT !.pc = "search", !.searched = TRUE]]
    /\ UNCHANGED <<applications, cvs, jobPreferences, catalogue, emails, apply, post, users, upload, extract, parse>>

\* await jobSearchService.searchJobs(..., maxApplications * 2) returns; the loop
\* is entered.  (searched: the search call was made.)
AutoApplySearch(i) ==
    /\ auto[i].pc = "search"
    /\ auto' = [auto EXCEPT ![i] =
                  LoopHead([@ EXCEPT !.jobs = SearchJobs(auto[i].maxApplications * 2),
                                     !.idx = 1])]
    /\ UNCHANGED <<applications, cvs, jobPreferences, catalogue, emails, apply, post, users, upload, extract, parse>>

\* A call before the loop rejects: getUserJobPreferences, getUserCvs or
\* searchJobs.  The outer catch answers 500.
AutoApplyFails(i) ==
    /\ auto[i].pc \in {"prefs", "cvs", "search"}
    /\ auto' = [auto EXCEPT ![i] = Respond500(@, @.pc)]
    /\ UNCHANGED <<applications, cvs, jobPreferences, catalogue, emails, apply, post, users, upload, extract, parse>>

\* existingApplications.some(app => app.company === job.company &&
\*                                  app.jobTitle === job.title)
AlreadyApplied(existingApplications, job) ==
    \E k \in 1..Len(existingApplications) :
        /\ existingApplications[k].company = job.company
        /\ existingApplications[k].jobTitle = job.title

\* Mutant: the contact-email guard is missing.
ContactEmailUnchecked(job) == TRUE

\* `if (job.contactEmail)`
ContactEmail(job) == job.contactEmail

\* await storage.getUserApplications(userId) returns (limit takes its default):
\* `continue` when already applied, nothing to do without a contact email,
\* otherwise createApplication is called.
AutoApplyHistory(i) ==
    /\ auto[i].pc = "history"
    /\ LET r == auto[i]
           job == r.jobs[r.idx]
           existingApplications == GetUserApplications(r.userId, DefaultLimit)
           everApplied == \E k \in 1..Len(applications) :
                             /\ applications[k].userId = r.userId
                             /\ applications[k].company = job.company
                             /\ applications[k].jobTitle = job.title
       IN  auto' = [auto EXCEPT ![i] =
                     IF AlreadyApplied(existingApplications, job) THEN NextJob(r)
                     ELSE IF ~ContactEmail(job) THEN NextJob(r)
                     ELSE [r EXCEPT !.pc = "create", !.dup = everApplied]]
    /\ UNCHANGED <<applications, cvs, jobPreferences, catalogue, emails, apply, post, users, upload, extract, parse>>

\* await storage.createApplication({...}) returns the new row (status "sent" by
\* the column default).  Then `latestCv = userCvs[0]` and the arguments of
\* sendJobApplication are evaluated: latestCv.filename throws a TypeError, which
\* the inner catch takes, when userCvs is empty.  Otherwise the send is awaited.
AutoApplyCreate(i) ==
    /\ auto[i].pc = "create"
    /\ LET r == auto[i]
           job == r.jobs[r.idx]
       IN  /\ applications' = CreateApplication(
                  [userId |-> r.userId, jobTitle |-> job.title, company |-> job.company,
                   applicationMethod |-> "email", status |-> Undefined,
                   by |-> i, dup |-> r.dup])
           /\ auto' = [auto EXCEPT ![i] =
                  LET r1 == [r EXCEPT !.application = Len(applications) + 1]
                  IN  IF Len(r.userCvs) = 0 THEN CatchAndContinue(r1)
                      ELSE [r1 EXCEPT !.pc = "send"]]
    /\ UNCHANGED <<cvs, jobPreferences, catalogue, emails, apply, post, users, upload, extract, parse>>

\* One call of emailService.sendJobApplication, as the model's log keeps it.
Email(i, r, result) ==
    [by |-> i, idx |-> r.idx, application |-> r.application,
     company |-> r.jobs[r.idx].company, jobTitle |-> r.jobs[r.idx].title,
     cv |-> r.userCvs[1].id, result |-> result]

\* await emailService.sendJobApplication({...}) returns { success, error? }:
\* on success the row is pushed and counted, otherwise updateApplicationStatus
\* is called.
AutoApplySend(i) ==
    /\ auto[i].pc = "send"
    /\ \E success \in BOOLEAN :
          LET r == auto[i]
          IN  /\ emails' = emails \cup
                     {Email(i, r, IF success THEN "success" ELSE "failure")}
              /\ auto' = [auto EXCEPT ![i] =
                     IF success
                     THEN NextJob([r EXCEPT
                                     !.applications = Append(@, r.application),
                                     !.applicationCount = @ + 1])
                     ELSE [r EXCEPT !.pc = "update"]]
    /\ UNCHANGED <<applications, cvs, jobPreferences, catalogue, apply, post, users, upload, extract, parse>>

\* await storage.updateApplicationStatus(application.id, 'failed', { error })
\* returns.
AutoApplyUpdate(i) ==
    /\ auto[i].pc = "update"
    /\ applications' = UpdateApplicationStatus(auto[i].application, "failed", "error")
    /\ auto' = [auto EXCEPT ![i] = NextJob(@)]
    /\ UNCHANGED <<cvs, jobPreferences, catalogue, emails, apply, post, users, upload, extract, parse>>

\* An awaited call inside the loop's try block rejects (the history read, the
\* insert, the send or the status update): the inner catch logs it.
AutoApplyCaught(i) ==
    /\ auto[i].pc \in {"history", "create", "send", "update"}
    /\ emails' = IF auto[i].pc = "send"
                 THEN emails \cup {Email(i, auto[i], "threw")}
                 ELSE emails
    /\ auto' = [auto EXCEPT ![i] = CatchAndContinue(@)]
    /\ UNCHANGED <<applications, cvs, jobPreferences, catalogue, apply, post, users, upload, extract, parse>>


\* ------------------------------------------------------ POST /api/jobs/apply
ApplyIdle ==
    [pc |-> "idle", applicationData |-> Undefined, userCvs |-> <<>>, code |-> 0]

\* What insertApplicationSchema.parse lets through: createInsertSchema(applications)
\* without id, appliedAt, responseAt.  status is an optional string (a text column
\* with a default): any string passes.
ApplyBodies ==
    [userId : Users, jobTitle : Titles, company : Companies,
     applicationMethod : {"email", "form"},
     status : {Undefined, "responded", "archived"},
     by : {0}, dup : {FALSE}]

\* insertApplicationSchema.parse(req.body), then the first await.  A body the
\* schema rejects throws, and the catch answers 500.
ApplyStart ==
    /\ apply.pc \in {"idle", "done"}
    /\ Len(applications) < MaxRows
    /\ \/ \E body \in ApplyBodies :
             apply' = [ApplyIdle EXCEPT !.pc = "cvs", !.applicationData = body]
       \/ apply' = [ApplyIdle EXCEPT !.pc = "done", !.code = 500]
    /\ UNCHANGED <<applications, cvs, jobPreferences, catalogue, emails, auto, post, users, upload, extract, parse>>

\* await storage.getUserCvs(userId) returns: 400 without a CV; the email method
\* sends first, any other method goes straight to the insert.
ApplyCvs ==
    /\ apply.pc = "cvs"
    /\ LET userCvs == GetUserCvs(apply.applicationData.userId)
       IN  apply' = IF Len(userCvs) = 0
                    THEN [apply EXCEPT !.pc = "done", !.code = 400]
                    ELSE [apply EXCEPT
                            !.userCvs = userCvs,
                            !.pc = IF apply.applicationData.applicationMethod = "email"
                                   THEN "send" ELSE "create"]
    /\ UNCHANGED <<applications, cvs, jobPreferences, catalogue, emails, auto, post, users, upload, extract, parse>>

\* Mutant: the result of the send is not looked at.
ApplySendUnchecked ==
    /\ apply.pc = "send"
    /\ \E success \in BOOLEAN :
          /\ emails' = emails \cup
                {[by |-> 0, idx |-> 0, application |-> 0,
                  company |-> apply.applicationData.company,
                  jobTitle |-> apply.applicationData.jobTitle,
                  cv |-> apply.userCvs[1].id,
                  result |-> IF success THEN "success" ELSE "failure"]}
          /\ apply' = [apply EXCEPT !.pc = "create"]
    /\ UNCHANGED <<applications, cvs, jobPreferences, catalogue, auto, post, users, upload, extract, parse>>

\* await emailService.sendJobApplication({...}) returns: `throw new Error` (500)
\* unless it succeeded.
ApplySend ==
    /\ apply.pc = "send"
    /\ \E success \in BOOLEAN :
          /\ emails' = emails \cup
                {[by |-> 0, idx |-> 0, application |-> 0,
                  company |-> apply.applicationData.company,
                  jobTitle |-> apply.applicationData.jobTitle,
                  cv |-> apply.userCvs[1].id,
                  result |-> IF success THEN "success" ELSE "failure"]}
          /\ apply' = IF success THEN [apply EXCEPT !.pc = "create"]
                      ELSE [apply EXCEPT !.pc = "done", !.code = 500]
    /\ UNCHANGED <<applications, cvs, jobPreferences, catalogue, auto, post, users, upload, extract, parse>>

\* await storage.createApplication(applicationData) returns; res.json.
ApplyCreate ==
    /\ apply.pc = "create"
    /\ applications' = CreateApplication(apply.applicationData)
    /\ apply' = [apply EXCEPT !.pc = "done", !.code = 200]
    /\ UNCHANGED <<cvs, jobPreferences, catalogue, emails, auto, post, users, upload, extract, parse>>

\* An awaited call rejects: the catch answers 500.
ApplyFails ==
    /\ apply.pc \in {"cvs", "send", "create"}
    /\ apply' = [apply EXCEPT !.pc = "done", !.code = 500]
    /\ UNCHANGED <<applications, cvs, jobPreferences, catalogue, emails, auto, post, users, upload, extract, parse>>

\* ------------------------------------- POST /api/users/:userId/job-preferences
PostIdle == [pc |-> "idle", userId |-> "u1", data |-> "d1", code |-> 0]

\* DatabaseStorage.createJobPreferences: insert ... returning.
CreateJobPreferences(insertPreferences) == Append(jobPreferences, insertPreferences)

\* DatabaseStorage.updateJobPreferences: update ... set ... where userId.
UpdateJobPreferences(userId, updateData) ==
    [k \in 1..Len(jobPreferences) |->
        IF jobPreferences[k].userId = userId
        THEN [jobPreferences[k] EXCEPT !.data = updateData.data]
        ELSE jobPreferences[k]]

\* insertJobPreferencesSchema.parse({ ...req.body, userId }), then the first
\* await.  A body the schema rejects throws, and the catch answers 400.
PostStart(i) ==
    /\ post[i].pc = "idle"
    /\ \/ \E userId \in Users, data \in {"d1", "d2"} :
             post' = [post EXCEPT ![i] =
                        [pc |-> "get", userId |-> userId, data |-> data, code |-> 0]]
       \/ post' = [post EXCEPT ![i] = [@ EXCEPT !.pc = "done", !.code = 400]]
    /\ UNCHANGED <<applications, cvs, jobPreferences, catalogue, emails, auto, apply, users, upload, extract, parse>>

\* await storage.getUserJobPreferences(userId) returns: update when a row
\* exists, create otherwise.
PostGet(i) ==
    /\ post[i].pc = "get"
    /\ \E existingPreferences \in GetUserJobPreferences(post[i].userId) :
          post' = [post EXCEPT ![i].pc =
                     IF existingPreferences # 0 THEN "update" ELSE "create"]
    /\ UNCHANGED <<applications, cvs, jobPreferences, catalogue, emails, auto, apply, users, upload, extract, parse>>

\* await storage.updateJobPreferences(userId, preferencesData) returns; res.json.
PostUpdate(i) ==
    /\ post[i].pc = "update"
    /\ jobPreferences' = UpdateJobPreferences(post[i].userId,
                             [userId |-> post[i].userId, data |-> post[i].data])
    /\ post' = [post EXCEPT ![i] = [@ EXCEPT !.pc = "done", !.code = 200]]
    /\ UNCHANGED <<applications, cvs, catalogue, emails, auto, apply, users, upload, extract, parse>>

\* await storage.createJobPreferences(preferencesData) returns; res.json.
PostCreate(i) ==
    /\ post[i].pc = "create"
    /\ jobPreferences' = CreateJobPreferences(
                             [userId |-> post[i].userId, data |-> post[i].data])
    /\ post' = [post EXCEPT ![i] = [@ EXCEPT !.pc = "done", !.code = 200]]
    /\ UNCHANGED <<applications, cvs, catalogue, emails, auto, apply, users, upload, extract, parse>>

\* An awaited call rejects: the catch answers 400.
PostFails(i) ==
    /\ post[i].pc \in {"get", "update", "create"}
    /\ post' = [post EXCEPT ![i] = [@ EXCEPT !.pc = "done", !.code = 400]]
    /\ UNCHANGED <<applications, cvs, jobPreferences, catalogue, emails, auto, apply, users, upload, extract, parse>>

\* ------------------------------------------------- dashboard: handleAutoApply
\* users.plan: "free" by default; the schema's comment lists the four plans.
Plans == {"free", "starter", "professional", "enterprise"}

\* The dashboard's user: a literal, not the row of the signed-in user.
mockUser == [id |-> "u1", plan |-> "professional"]

\* plan === "free" ? 5 : plan === "starter" ? 50 : plan === "professional" ? 100 : 500
PlanQuota(plan) ==
    IF plan = "free" THEN 5
    ELSE IF plan = "starter" THEN 50
    ELSE IF plan = "professional" THEN 100
    ELSE 500

\* handleAutoApply: autoApplyMutation.mutate(maxApplications) posts
\* { userId: mockUser.id, maxApplications } to /api/jobs/auto-apply, which
\* destructures the body and reaches its first await.
handleAutoApply(i) ==
    /\ auto[i].pc = "idle"
    /\ auto' = [auto EXCEPT ![i] =
                  [@ EXCEPT !.pc = "prefs", !.userId = mockUser.id,
                            !.maxApplications = PlanQuota(mockUser.plan)]]
    /\ UNCHANGED <<applications, cvs, jobPreferences, catalogue, emails, apply, post, users, upload, extract, parse>>

\* ------------------------------------------------------------------ strings
\* A string is the sequence of its characters; the texts of the model are ASCII.
Some(x) == <<x>>

None == <<>>

SetMin(S) == CHOOSE x \in S : \A y \in S : x <= y

SetMax(S) == CHOOSE x \in S : \A y \in S : x >= y

UpperCase ==
    <<"A", "B", "C", "D", "E", "F", "G", "H", "I", "J", "K", "L", "M",
      "N", "O", "P", "Q", "R", "S", "T", "U", "V", "W", "X", "Y", "Z">>

LowerCase ==
    <<"a", "b", "c", "d", "e", "f", "g", "h", "i", "j", "k", "l", "m",
      "n", "o", "p", "q", "r", "s", "t", "u", "v", "w", "x", "y", "z">>

DigitChars == <<"0", "1", "2", "3", "4", "5", "6", "7", "8", "9">>

Letter == Range(UpperCase) \cup Range(LowerCase)

\* \d
Digit == Range(DigitChars)

\* \s
Whitespace == {" ", "\t", "\n", "\r", "\f"}

\* \w
WordChar == Letter \cup Digit \cup {"_"}

\* Were the case of the text kept.
KeepCase(s) == s

\* String.prototype.toLowerCase
ToLowerCase(s) ==
    [k \in 1..Len(s) |->
        IF s[k] \in Range(UpperCase)
        THEN LowerCase[CHOOSE j \in 1..Len(UpperCase) : UpperCase[j] = s[k]]
        ELSE s[k]]

\* String.prototype.trim
Trim(s) ==
    LET kept == {k \in 1..Len(s) : s[k] \notin Whitespace}
    IN  IF kept = {} THEN <<>> ELSE SubSeq(s, SetMin(kept), SetMax(kept))

\* String.prototype.split with a separator of one character
RECURSIVE Split(_, _)
Split(s, c) ==
    LET at == {k \in 1..Len(s) : s[k] = c}
    IN  IF at = {} THEN <<s>>
        ELSE <<SubSeq(s, 1, SetMin(at) - 1)>>
                 \o Split(SubSeq(s, SetMin(at) + 1, Len(s)), c)

\* Array.prototype.join with a separator of one character
RECURSIVE Join(_, _)
Join(parts, c) ==
    IF Len(parts) = 0 THEN <<>>
    ELSE IF Len(parts) = 1 THEN parts[1]
    ELSE parts[1] \o <<c>> \o Join(Tail(parts), c)

\* String.prototype.startsWith
StartsWith(s, prefix) ==
    /\ Len(prefix) <= Len(s)
    /\ \A j \in 1..Len(prefix) : s[j] = prefix[j]

\* String.prototype.includes
Includes(s, sub) ==
    \E k \in 0..(Len(s) - Len(sub)) : \A j \in 1..Len(sub) : s[k + j] = sub[j]

\* The decimal digits of a natural number, as template literals format it.
RECURSIVE Str(_)
Str(n) ==
    IF n < 10 THEN <<DigitChars[n + 1]>>
    ELSE Str(n \div 10) \o <<DigitChars[(n % 10) + 1]>>

\* ------------------------------------------------------ regular expressions
\* Offsets count characters from 0 as lastIndex does: a match from offset i to
\* offset e is SubSeq(s, i + 1, e).
NoMatch == -1

\* The last index of the run of characters of class that starts at index k
\* (k - 1 when s[k] is not in class).
RunEnd(s, k, class) ==
    LET stop == {j \in k..Len(s) : s[j] \notin class}
    IN  IF stop # {} THEN SetMin(stop) - 1
        ELSE IF k > Len(s) THEN k - 1 ELSE Len(s)

\* \b at offset p: exactly one of s[p], s[p + 1] is a word character.
WordBoundary(s, p) ==
    (p \in 1..Len(s) /\ s[p] \in WordChar)
        # (p + 1 \in 1..Len(s) /\ s[p + 1] \in WordChar)

\* [A-Za-z0-9._%+-]
EmailLocal == Letter \cup Digit \cup {".", "_", "%", "+", "-"}

\* [A-Za-z0-9.-]
EmailDomain == Letter \cup Digit \cup {".", "-"}

\* [A-Z|a-z]
EmailTld == Letter \cup {"|"}

\* /\b[A-Za-z0-9._%+-]+@[A-Za-z0-9.-]+\.[A-Z|a-z]{2,}\b/ tried at offset i: the
\* end offset of the match, or NoMatch.  The local part is the whole run up to
\* the "@"; the greedy domain gives back characters until a "." follows it
\* (the last "." that works), and the greedy top-level part gives back
\* characters until a word boundary follows it.
EmailMatchAt(s, i) ==
    LET at == RunEnd(s, i + 1, EmailLocal) + 1
        domainEnd == RunEnd(s, at + 1, EmailDomain)
        TldEnds(dot) == {t \in (dot + 2)..RunEnd(s, dot + 1, EmailTld) : WordBoundary(s, t)}
        dots == {dot \in (at + 2)..domainEnd : s[dot] = "." /\ TldEnds(dot) # {}}
    IN  IF /\ WordBoundary(s, i)
           /\ at > i + 1
           /\ at <= Len(s)
           /\ s[at] = "@"
           /\ dots # {}
        THEN SetMax(TldEnds(SetMax(dots)))
        ELSE NoMatch

\* [\d\s\-\(\)]
PhoneClass == Digit \cup Whitespace \cup {"-", "(", ")"}

\* /(\+?[\d\s\-\(\)]{10,})/ tried at offset i: the end offset of the match, or
\* NoMatch.  An optional "+", then the whole run of class characters, which
\* must be at least 10 long.
PhoneMatchAt(s, i) ==
    LET from == IF i + 1 <= Len(s) /\ s[i + 1] = "+" THEN i + 1 ELSE i
        end == RunEnd(s, from + 1, PhoneClass)
    IN  IF end - from >= 10 THEN end ELSE NoMatch

\* The expression regex, "emailRegex" or "phoneRegex", tried at offset i.
MatchAt(regex, s, i) ==
    IF regex = "emailRegex" THEN EmailMatchAt(s, i) ELSE PhoneMatchAt(s, i)

\* RegExp.prototype.exec of a g-flagged expression: the leftmost match that
\* starts at lastIndex or later.
RegExpExec(regex, s, lastIndex) ==
    LET starts == {i \in lastIndex..Len(s) : MatchAt(regex, s, i) # NoMatch}
    IN  IF starts = {} THEN [found |-> FALSE, index |-> 0, end |-> 0]
        ELSE [found |-> TRUE, index |-> SetMin(starts),
              end |-> MatchAt(regex, s, SetMin(starts))]

\* RegExp.prototype.test of a g-flagged expression: the search starts at
\* lastIndex; a match leaves lastIndex at its end, a failure resets it to 0.
RegExpTest(regex, s, lastIndex) ==
    LET m == RegExpExec(regex, s, lastIndex)
    IN  [result |-> m.found, lastIndex |-> IF m.found THEN m.end ELSE 0]

\* text.match(regex)[0] of a g-flagged expression: match sets lastIndex to 0,
\* collects every match and leaves lastIndex at 0; the first match, if any.
StringMatch(regex, s) ==
    LET m == RegExpExec(regex, s, 0)
    IN  IF m.found THEN Some(SubSeq(s, m.index + 1, m.end)) ELSE None

\* ------------------------------------------------------------ sample texts
\* The example of the specification: a name, an email address, a phone number.
SpecExample ==
    <<"J", "o", "h", "n", " ", "S", "m", "i", "t", "h", "\n", "j", "o", "h", "n", "@", "x",
      ".", "c", "o", "m", "\n", "5", "5", "5", "-", "1", "2", "3", "-", "4", "5", "6", "7">>

RepeatedEmail ==
    <<"j", "o", "h", "n", "@", "x", ".", "c", "o", "m", "\n", "j", "o", "h", "n", "@", "x",
      ".", "c", "o", "m">>

EmptyText == <<>>

EmailOnly == <<"j", "o", "h", "n", "@", "x", ".", "c", "o", "m">>

\* A line of five tokens, a line of 50 characters, then a line that qualifies.
LongLines ==
    <<"a", " ", "b", " ", "c", " ", "d", " ", "e", "\n", "x", "x", "x", "x", "x", "x", "x",
      "x", "x", "x", "x", "x", "x", "x", "x", "x", "x", "x", "x", "x", "x", "x", "x", "x", "x",
      "x", "x", "x", "x", "x", "x", "x", "x", "x", "x", "x", "x", "x", "x", "x", "x", "x", "x",
      "x", "x", "x", "x", "x", "x", "x", "\n", "B", "o", "b", " ", "R", "a", "y">>

FullCv ==
    <<"J", "a", "n", "e", " ", "D", "o", "e", "\n", "S", "k", "i", "l", "l", "s", ":", " ",
      "P", "y", "t", "h", "o", "n", ",", " ", "S", "Q", "L", " ", "a", "n", "d", " ", "R", "e",
      "a", "c", "t", "\n", "E", "x", "p", "e", "r", "i", "e", "n", "c", "e", "\n", "A", "c",
      "m", "e", " ", "C", "o", "r", "p", " ", "d", "e", "v", "e", "l", "o", "p", "e", "r", " ",
      "2", "0", "1", "9", "-", "2", "0", "2", "1", "\n", "E", "d", "u", "c", "a", "t", "i",
      "o", "n", "\n", "B", "S", "c", " ", "C", "o", "m", "p", "u", "t", "e", "r", " ", "S",
      "c", "i", "e", "n", "c", "e">>

Texts ==
    {SpecExample, RepeatedEmail, EmptyText, EmailOnly, LongLines, FullCv}

\* The contents of the files that are uploaded.
UploadTexts == {EmptyText, SpecExample, FullCv}

\* ------------------------------------------- CVParserService.extractDataFromText
\* ParsedCVData: every field is optional, None when the property is not set.
ParsedCVData(name, email, phone, skills, experience, education, summary) ==
    [name |-> name, email |-> email, phone |-> phone, skills |-> skills,
     experience |-> experience, education |-> education, summary |-> summary]

\* The object of the previous call, were one object shared by all calls.
SharedData ==
    IF extract = <<>> THEN ParsedCVData(None, None, None, None, None, None, None)
    ELSE extract[Len(extract)].data

\* const data: ParsedCVData = {}: a new object in every call.
NewData == ParsedCVData(None, None, None, None, None, None, None)

\* text.split('\n').map(line => line.trim()).filter(line => line.length > 0)
NonEmptyLines(text) ==
    SelectSeq([k \in 1..Len(Split(text, "\n")) |-> Trim(Split(text, "\n")[k])],
              LAMBDA line : Len(line) > 0)

\* The loop over the lines.  emailRegex and phoneRegex are the g-flagged objects
\* that text.match left at lastIndex 0; each test moves the lastIndex of its
\* object, and phoneRegex.test runs only when emailRegex.test returned false.
RECURSIVE NameLoop(_, _, _, _)
NameLoop(lines, k, emailLastIndex, phoneLastIndex) ==
    IF k > Len(lines) THEN None
    ELSE LET line == lines[k]
             email == RegExpTest("emailRegex", line, emailLastIndex)
             phone == RegExpTest("phoneRegex", line, phoneLastIndex)
         IN  IF email.result
             THEN NameLoop(lines, k + 1, email.lastIndex, phoneLastIndex)
             ELSE IF phone.result
             THEN NameLoop(lines, k + 1, email.lastIndex, phone.lastIndex)
             ELSE IF Len(line) < 50 /\ Len(Split(line, " ")) <= 4
             THEN Some(line)
             ELSE NameLoop(lines, k + 1, email.lastIndex, phone.lastIndex)

skillKeywords ==
    <<<<"j", "a", "v", "a", "s", "c", "r", "i", "p", "t">>,
      <<"p", "y", "t", "h", "o", "n">>,
      <<"j", "a", "v", "a">>,
      <<"r", "e", "a", "c", "t">>,
      <<"n", "o", "d", "e">>,
      <<"s", "q", "l">>,
      <<"h", "t", "m", "l">>,
      <<"c", "s", "s">>,
      <<"g", "i", "t">>,
      <<"a", "w", "s">>,
      <<"d", "o", "c", "k", "e", "r">>,
      <<"k", "u", "b", "e", "r", "n", "e", "t", "e", "s">>,
      <<"t", "y", "p", "e", "s", "c", "r", "i", "p", "t">>,
      <<"a", "n", "g", "u", "l", "a", "r">>,
      <<"v", "u", "e">>,
      <<"m", "o", "n", "g", "o", "d", "b">>,
      <<"p", "o", "s", "t", "g", "r", "e", "s", "q", "l">>,
      <<"m", "y", "s", "q", "l">>,
      <<"r", "e", "d", "i", "s">>,
      <<"g", "r", "a", "p", "h", "q", "l">>,
      <<"r", "e", "s", "t">>,
      <<"a", "p", "i">>,
      <<"m", "a", "c", "h", "i", "n", "e", " ", "l", "e", "a", "r", "n", "i", "n", "g">>,
      <<"d", "a", "t", "a", " ", "a", "n", "a", "l", "y", "s", "i", "s">>,
      <<"p", "r", "o", "j", "e", "c", "t", " ", "m", "a", "n", "a", "g", "e", "m", "e", "n",
          "t">>,
      <<"a", "g", "i", "l", "e">>,
      <<"s", "c", "r", "u", "m">>,
      <<"l", "e", "a", "d", "e", "r", "s", "h", "i", "p">>,
      <<"c", "o", "m", "m", "u", "n", "i", "c", "a", "t", "i", "o", "n">>,
      <<"p", "r", "o", "b", "l", "e", "m", " ", "s", "o", "l", "v", "i", "n", "g">>>>

experienceKeywords ==
    <<<<"e", "x", "p", "e", "r", "i", "e", "n", "c", "e">>,
      <<"w", "o", "r", "k", " ", "h", "i", "s", "t", "o", "r", "y">>,
      <<"e", "m", "p", "l", "o", "y", "m", "e", "n", "t">>,
      <<"c", "a", "r", "e", "e", "r">>>>

educationKeywords ==
    <<<<"e", "d", "u", "c", "a", "t", "i", "o", "n">>,
      <<"q", "u", "a", "l", "i", "f", "i", "c", "a", "t", "i", "o", "n">>,
      <<"d", "e", "g", "r", "e", "e">>,
      <<"u", "n", "i", "v", "e", "r", "s", "i", "t", "y">>,
      <<"c", "o", "l", "l", "e", "g", "e">>>>

majorHeadings ==
    <<<<"s", "k", "i", "l", "l", "s">>,
      <<"e", "x", "p", "e", "r", "i", "e", "n", "c", "e">>,
      <<"e", "d", "u", "c", "a", "t", "i", "o", "n">>,
      <<"c", "o", "n", "t", "a", "c", "t">>,
      <<"s", "u", "m", "m", "a", "r", "y">>,
      <<"o", "b", "j", "e", "c", "t", "i", "v", "e">>>>

\* extractSection: the lines after the first line that contains a keyword, up to
\* the next major heading or the end of the text; None when no line does.
ExtractSection(text, keywords) ==
    LET lines == Split(text, "\n")
        starts == {i \in 1..Len(lines) :
                      \E k \in 1..Len(keywords) :
                          Includes(ToLowerCase(lines[i]), keywords[k])}
        sectionStart == SetMin(starts)
        ends == {i \in (sectionStart + 1)..Len(lines) :
                    \E h \in 1..Len(majorHeadings) :
                        \/ Trim(ToLowerCase(lines[i])) = majorHeadings[h]
                        \/ StartsWith(Trim(ToLowerCase(lines[i])),
                                      majorHeadings[h] \o <<":">>)}
        sectionEnd == IF ends = {} THEN Len(lines) + 1 ELSE SetMin(ends)
    IN  IF starts = {} THEN None
        ELSE Some(Join(SubSeq(lines, sectionStart + 1, sectionEnd - 1), "\n"))

\* section.split('\n').map(line => line.trim()).filter(line => line.length >
\* longerThan).slice(0, limit)
SectionEntries(section, longerThan, limit) ==
    Take(SelectSeq([k \in 1..Len(Split(section, "\n")) |->
                       Trim(Split(section, "\n")[k])],
                   LAMBDA line : Len(line) > longerThan),
         limit)

\* data.x?.length || 0
LengthOrZero(field) == IF field = None THEN 0 ELSE Len(field[1])

\* `CV contains ${skills} identified skills, ${experience} work experiences, and
\* ${education} education entries.`
Summary(skills, experience, education) ==
    <<"C", "V", " ", "c", "o", "n", "t", "a", "i", "n", "s", " ">>
        \o Str(skills)
        \o <<" ", "i", "d", "e", "n", "t", "i", "f", "i", "e", "d", " ", "s", "k", "i", "l", "l",
          "s", ",", " ">>
        \o Str(experience)
        \o <<" ", "w", "o", "r", "k", " ", "e", "x", "p", "e", "r", "i", "e", "n", "c", "e", "s",
          ",", " ", "a", "n", "d", " ">>
        \o Str(education)
        \o <<" ", "e", "d", "u", "c", "a", "t", "i", "o", "n", " ", "e", "n", "t", "r", "i", "e",
          "s", ".">>

\* extractDataFromText.  A property is assigned only under its condition (an
\* empty section is falsy), so it otherwise keeps what the object held.
ExtractDataFromText(text) ==
    LET data == NewData
        emailMatch == StringMatch("emailRegex", text)
        phoneMatch == StringMatch("phoneRegex", text)
        name == NameLoop(NonEmptyLines(text), 1, 0, 0)
        lowerText == ToLowerCase(text)
        skills == SelectSeq(skillKeywords,
                            LAMBDA skill : Includes(lowerText, ToLowerCase(skill)))
        experienceSection == ExtractSection(text, experienceKeywords)
        educationSection == ExtractSection(text, educationKeywords)
        experience == IF experienceSection # None /\ experienceSection[1] # <<>>
                      THEN Some(SectionEntries(experienceSection[1], 10, 5))
                      ELSE data.experience
        education == IF educationSection # None /\ educationSection[1] # <<>>
                     THEN Some(SectionEntries(educationSection[1], 5, 3))
                     ELSE data.education
    IN  ParsedCVData(
            IF name # None THEN name ELSE data.name,
            IF emailMatch # None THEN emailMatch ELSE data.email,
            IF phoneMatch # None THEN Some(Trim(phoneMatch[1])) ELSE data.phone,
            Some(skills),
            experience,
            education,
            Some(Summary(LengthOrZero(Some(skills)), LengthOrZero(experience),
                         LengthOrZero(education))))

\* The calls under observation: the last MaxCalls of them, oldest first.
Observe(log, text, data) ==
    LET all == Append(log, [text |-> text, data |-> data])
    IN  IF Len(all) > MaxCalls THEN Tail(all) ELSE all

\* extractDataFromText is called with one of the sample texts.
ExtractCall ==
    /\ \E text \in Texts :
          extract' = Observe(extract, text, ExtractDataFromText(text))
    /\ UNCHANGED <<applications, cvs, jobPreferences, catalogue, emails, auto, apply, post, users, upload, parse>>

\* -------------------------------------------------- CVParserService.parseCV
ApplicationPdf ==
    <<"a", "p", "p", "l", "i", "c", "a", "t", "i", "o", "n", "/", "p", "d", "f">>

ApplicationMsword ==
    <<"a", "p", "p", "l", "i", "c", "a", "t", "i", "o", "n", "/", "m", "s", "w", "o", "r", "d">>

ApplicationDocx ==
    <<"a", "p", "p", "l", "i", "c", "a", "t", "i", "o", "n", "/", "v", "n", "d", ".", "o", "p",
      "e", "n", "x", "m", "l", "f", "o", "r", "m", "a", "t", "s", "-", "o", "f", "f", "i", "c",
      "e", "d", "o", "c", "u", "m", "e", "n", "t", ".", "w", "o", "r", "d", "p", "r", "o", "c",
      "e", "s", "s", "i", "n", "g", "m", "l", ".", "d", "o", "c", "u", "m", "e", "n", "t">>

TextPlain == <<"t", "e", "x", "t", "/", "p", "l", "a", "i", "n">>

\* What a file without any space decodes to: 50 characters.
Unspaced ==
    <<"P", "K", "x", "x", "x", "x", "x", "x", "x", "x", "x", "x", "x", "x", "x", "x", "x", "x",
      "x", "x", "x", "x", "x", "x", "x", "x", "x", "x", "x", "x", "x", "x", "x", "x", "x", "x",
      "x", "x", "x", "x", "x", "x", "x", "x", "x", "x", "x", "x", "x", "x">>

\* The MIME types a caller passes: the three parseCV dispatches on, and another.
MimeTypes == {ApplicationPdf, ApplicationMsword, ApplicationDocx, TextPlain}

FilePath == <<"u", "p", "l", "o", "a", "d", "s", "/", "c", "v", "1">>

OtherPath == <<"d", "o", "c", "s", "/", "c", "v", ".", "p", "d", "f">>

Eacces ==
    <<"E", "A", "C", "C", "E", "S", ":", " ", "p", "e", "r", "m", "i", "s", "s", "i", "o", "n",
      " ", "d", "e", "n", "i", "e", "d">>

\* What a rejected readFile carries as its message.
ReadErrors == {Eacces}

FileNotFound ==
    <<"F", "i", "l", "e", " ", "n", "o", "t", " ", "f", "o", "u", "n", "d", ":", " ">>

UnsupportedFileType ==
    <<"U", "n", "s", "u", "p", "p", "o", "r", "t", "e", "d", " ", "f", "i", "l", "e", " ", "t",
      "y", "p", "e", ":", " ">>

FailedToParsePdf ==
    <<"F", "a", "i", "l", "e", "d", " ", "t", "o", " ", "p", "a", "r", "s", "e", " ", "P", "D",
      "F", ":", " ">>

FailedToParseWord ==
    <<"F", "a", "i", "l", "e", "d", " ", "t", "o", " ", "p", "a", "r", "s", "e", " ", "W", "o",
      "r", "d", " ", "d", "o", "c", "u", "m", "e", "n", "t", ":", " ">>

CvParsingFailed ==
    <<"C", "V", " ", "p", "a", "r", "s", "i", "n", "g", " ", "f", "a", "i", "l", "e", "d", ":",
      " ">>

CvUpload == <<"C", "V", " ", "U", "p", "l", "o", "a", "d">>

\* filePath.split('/').pop()
BaseName(filePath) == Split(filePath, "/")[Len(Split(filePath, "/"))]

\* `PDF file uploaded: ${name}\nFile size: ${buffer.length} bytes\nThis is a PDF
\* document that requires specialized parsing.`
PdfPlaceholder(filePath, buffer) ==
    <<"P", "D", "F", " ", "f", "i", "l", "e", " ", "u", "p", "l", "o", "a", "d", "e", "d",
          ":", " ">>
        \o BaseName(filePath)
        \o <<"\n", "F", "i", "l", "e", " ", "s", "i", "z", "e", ":", " ">>
        \o Str(Len(buffer))
        \o <<" ", "b", "y", "t", "e", "s", "\n", "T", "h", "i", "s", " ", "i", "s", " ", "a", " ",
          "P", "D", "F", " ", "d", "o", "c", "u", "m", "e", "n", "t", " ", "t", "h", "a", "t",
          " ", "r", "e", "q", "u", "i", "r", "e", "s", " ", "s", "p", "e", "c", "i", "a", "l",
          "i", "z", "e", "d", " ", "p", "a", "r", "s", "i", "n", "g", ".">>

\* `Word document uploaded: ${name}\nFile size: ${buffer.length} bytes\nThis is a
\* Word document that requires specialized parsing.`
WordPlaceholder(filePath, buffer) ==
    <<"W", "o", "r", "d", " ", "d", "o", "c", "u", "m", "e", "n", "t", " ", "u", "p", "l",
          "o", "a", "d", "e", "d", ":", " ">>
        \o BaseName(filePath)
        \o <<"\n", "F", "i", "l", "e", " ", "s", "i", "z", "e", ":", " ">>
        \o Str(Len(buffer))
        \o <<" ", "b", "y", "t", "e", "s", "\n", "T", "h", "i", "s", " ", "i", "s", " ", "a", " ",
          "W", "o", "r", "d", " ", "d", "o", "c", "u", "m", "e", "n", "t", " ", "t", "h", "a",
          "t", " ", "r", "e", "q", "u", "i", "r", "e", "s", " ", "s", "p", "e", "c", "i", "a",
          "l", "i", "z", "e", "d", " ", "p", "a", "r", "s", "i", "n", "g", ".">>

\* Were parsePDF to compare with <= 50.
ParsePDFOffByOne(filePath, buffer) ==
    IF Len(buffer) <= 50
    THEN PdfPlaceholder(filePath, buffer)
    ELSE buffer

\* parsePDF once readFile has resolved with buffer: the decoded text, or the
\* placeholder when it is shorter than 50 characters.
ParsePDF(filePath, buffer) ==
    IF Len(buffer) < 50
    THEN PdfPlaceholder(filePath, buffer)
    ELSE buffer

\* parseWord once readFile has resolved with buffer: the placeholder also when
\* the decoded text holds no space.
ParseWord(filePath, buffer) ==
    IF Len(buffer) < 50 \/ ~Includes(buffer, <<" ">>)
    THEN WordPlaceholder(filePath, buffer)
    ELSE buffer

\* The object the catch block of parseCV returns.
Degraded(message) ==
    ParsedCVData(Some(CvUpload), None, None, Some(<<>>), Some(<<>>), Some(<<>>),
                 Some(CvParsingFailed \o message))

\* No call of parseCV in flight.  exists and readFailed record what the call
\* met, text what it passed to field inference.
ParseIdle ==
    [pc |-> "idle", filePath |-> <<>>, mimeType |-> <<>>, buffer |-> <<>>,
     outcome |-> "pending", value |-> None, exists |-> TRUE, readFailed |-> FALSE,
     text |-> None]

\* The promise of parseCV resolves with data.
Resolve(p, data) == [p EXCEPT !.pc = "settled", !.outcome = "resolved", !.value = data]

\* Were parseCV without its try/catch: the promise rejects with the error.
ParseCVRethrow(p, message) ==
    [p EXCEPT !.pc = "settled", !.outcome = "rejected", !.value = message]

\* `catch (error) { return { summary: `CV parsing failed: ...`, ... } }`
ParseCVCatch(p, message) == Resolve(p, Degraded(message))

\* parseCV(filePath, mimeType) up to its first await: the existence check, then
\* the dispatch on the MIME type.  buffer is what the file holds; exists is
\* what existsSync answers.
ParseCV(filePath, mimeType, buffer, exists) ==
    LET p == [ParseIdle EXCEPT !.filePath = filePath, !.mimeType = mimeType,
                               !.buffer = buffer, !.exists = exists]
    IN  IF ~exists THEN ParseCVCatch(p, FileNotFound \o filePath)
        ELSE IF mimeType = ApplicationPdf THEN [p EXCEPT !.pc = "parsePDF"]
        ELSE IF mimeType \in {ApplicationMsword, ApplicationDocx}
        THEN [p EXCEPT !.pc = "parseWord"]
        ELSE ParseCVCatch(p, UnsupportedFileType \o mimeType)

\* A caller other than the upload route calls parseCV.
ParseCVCall ==
    /\ parse.pc \in {"idle", "settled"}
    /\ \E filePath \in {FilePath, OtherPath}, mimeType \in MimeTypes,
          buffer \in Texts \cup {Unspaced}, exists \in BOOLEAN :
          parse' = ParseCV(filePath, mimeType, buffer, exists)
    /\ UNCHANGED <<applications, cvs, jobPreferences, catalogue, emails, auto, apply, post, users, upload, extract>>

\* await readFile(filePath) resolves: the text goes through field inference and
\* parseCV returns the data.
ParseCVRead ==
    /\ parse.pc \in {"parsePDF", "parseWord"}
    /\ LET text == IF parse.pc = "parsePDF"
                   THEN ParsePDF(parse.filePath, parse.buffer)
                   ELSE ParseWord(parse.filePath, parse.buffer)
       IN  parse' = Resolve([parse EXCEPT !.text = Some(text)],
                            ExtractDataFromText(text))
    /\ UNCHANGED <<applications, cvs, jobPreferences, catalogue, emails, auto, apply, post, users, upload, extract>>

\* await readFile(filePath) rejects: parsePDF or parseWord wraps the error and
\* throws it on to the catch block of parseCV.
ParseCVReadFails ==
    /\ parse.pc \in {"parsePDF", "parseWord"}
    /\ \E error \in ReadErrors :
          parse' = ParseCVCatch([parse EXCEPT !.readFailed = TRUE],
                                (IF parse.pc = "parsePDF" THEN FailedToParsePdf
                                 ELSE FailedToParseWord) \o error)
    /\ UNCHANGED <<applications, cvs, jobPreferences, catalogue, emails, auto, apply, post, users, upload, extract>>

\* ---------------------------------------------------- POST /api/cvs/upload
\* limits: { fileSize: 10 * 1024 * 1024 }
FileSizeLimit == 10 * 1024 * 1024

\* const allowedTypes = [...]
AllowedTypes == {ApplicationPdf, ApplicationMsword, ApplicationDocx}

\* Were the fileFilter to accept every file.
FileFilterAny(mimetype) == TRUE

\* fileFilter: cb(null, true) for an allowed type, cb(new Error(...)) otherwise.
FileFilter(mimetype) == mimetype \in AllowedTypes

\* multer's limit on the size of the uploaded file.
WithinLimit(size) == size <= FileSizeLimit

\* Were the handler not to check req.file.
MissingFileUnchecked(file) == FALSE

\* `if (!req.file)`
MissingFile(file) == file = None

\* `if (!userId)`
MissingUserId(userId) == userId = None

\* The files a request carries in its cv field: of any MIME type, and either
\* within the limit, holding one of the sample texts, or one byte over the
\* limit (of such a file the model holds the head only).
Files == [mimetype : MimeTypes, content : UploadTexts, over : BOOLEAN]

FileSize(file) == IF file.over THEN FileSizeLimit + 1 ELSE Len(file.content)

NoUploadResponse == [code |-> 0, message |-> "", cv |-> None, parsedData |-> None]

UploadResponse(code, message) ==
    [code |-> code, message |-> message, cv |-> None, parsedData |-> None]

\* No upload request in flight.  n numbers the requests; rejected, parsed and
\* fault record what happened to the request.
UploadIdle ==
    [pc |-> "idle", n |-> 0, file |-> None, userId |-> None, parsedData |-> None,
     res |-> NoUploadResponse, rejected |-> FALSE, parsed |-> FALSE,
     fault |-> "none"]

\* DatabaseStorage.createCv: insert(cvs).values(insertCv).returning(); by is the
\* request that inserted the row.
CreateCv(insertCv) ==
    Append(cvs, [id |-> Len(cvs) + 1, userId |-> insertCv.userId,
                 fileSize |-> insertCv.fileSize, mimeType |-> insertCv.mimeType,
                 parsedData |-> insertCv.parsedData, by |-> insertCv.by])

\* A request arrives.  upload.single('cv') runs first: a file the fileFilter
\* refuses or that exceeds the size limit ends the request with an error and
\* the handler does not run.  Otherwise the handler runs up to its first await:
\* 400 without a file, 400 without a userId, else parseCV is called (reading
\* req.file.path of a missing file throws into the catch block).
UploadRequest ==
    /\ upload.pc \in {"idle", "done"}
    /\ upload.n < MaxUploads
    /\ parse.pc \in {"idle", "settled"}
    /\ \E file \in {None} \cup {Some(f) : f \in Files},
          userId \in {None} \cup {Some(u) : u \in Users},
          exists \in BOOLEAN :
          LET r == [UploadIdle EXCEPT !.n = upload.n + 1, !.file = file,
                                      !.userId = userId]
              Respond(code, message) ==
                  /\ upload' = [r EXCEPT !.pc = "done",
                                         !.res = UploadResponse(code, message)]
                  /\ parse' = ParseIdle
          IN  IF /\ file # None
                 /\ \/ ~FileFilter(file[1].mimetype)
                    \/ ~WithinLimit(FileSize(file[1]))
              THEN /\ upload' = [r EXCEPT !.pc = "done", !.rejected = TRUE,
                                          !.res = UploadResponse(500, "upload rejected")]
                   /\ parse' = ParseIdle
              ELSE IF MissingFile(file) THEN Respond(400, "No file uploaded")
              ELSE IF MissingUserId(userId) THEN Respond(400, "User ID is required")
              ELSE IF file = None THEN Respond(500, "CV upload failed")
              ELSE /\ upload' = [r EXCEPT !.pc = "parseCV", !.parsed = TRUE]
                   /\ parse' = ParseCV(FilePath, file[1].mimetype,
                                       file[1].content, exists)
    /\ UNCHANGED <<applications, cvs, jobPreferences, catalogue, emails, auto, apply, post, users, extract>>

\* await cvParserService.parseCV(...) settles: a rejection goes to the catch
\* block; otherwise storage.createCv is called with the parsed data.
UploadParsed ==
    /\ upload.pc = "parseCV"
    /\ parse.pc = "settled"
    /\ upload' = IF parse.outcome = "rejected"
                 THEN [upload EXCEPT !.pc = "done", !.fault = "parseCV",
                                     !.res = UploadResponse(500, "CV upload failed")]
                 ELSE [upload EXCEPT !.pc = "createCv",
                                     !.parsedData = Some(parse.value)]
    /\ parse' = ParseIdle
    /\ UNCHANGED <<applications, cvs, jobPreferences, catalogue, emails, auto, apply, post, users, extract>>

\* await storage.createCv(...) returns the row; res.json({ cv, parsedData }).
UploadCreate ==
    /\ upload.pc = "createCv"
    /\ cvs' = CreateCv([userId |-> upload.userId[1],
                        fileSize |-> FileSize(upload.file[1]),
                        mimeType |-> upload.file[1].mimetype,
                        parsedData |-> upload.parsedData[1],
                        by |-> upload.n])
    /\ upload' = [upload EXCEPT !.pc = "done",
                                !.res = [code |-> 200, message |-> "",
                                         cv |-> Some(cvs'[Len(cvs')]),
                                         parsedData |-> upload.parsedData]]
    /\ UNCHANGED <<applications, jobPreferences, catalogue, emails, auto, apply, post, users, extract, parse>>

\* await storage.createCv(...) throws: the catch block answers 500.
UploadFails ==
    /\ upload.pc = "createCv"
    /\ upload' = [upload EXCEPT !.pc = "done", !.fault = "createCv",
                                !.res = UploadResponse(500, "CV upload failed")]
    /\ UNCHANGED <<applications, cvs, jobPreferences, catalogue, emails, auto, apply, post, users, extract, parse>>

\* ----------------------------------------------------------- initial states
\* A row of an earlier application (made through POST /api/jobs/apply).
Earlier(id, userId, company) ==
    [id |-> id, userId |-> userId, jobTitle |-> "dev", company |-> company,
     applicationMethod |-> "email", status |-> "sent", responseData |-> "null",
     by |-> 0, dup |-> FALSE]

\* A history: an optional oldest row for acme, then n rows of u1 for globex.
History(old, n) ==
    [k \in 1..(Len(old) + n) |->
        IF k <= Len(old) THEN Earlier(k, old[k], "acme") ELSE Earlier(k, "u1", "globex")]

Histories ==
    {History(old, n) :
        old \in {<<>>, <<"u1">>, <<"u2">>},
        n \in {0} \cup ((DefaultLimit - 1)..(DefaultLimit - 1 + ExtraHistory))}

CvTables ==
    {[k \in 1..Len(s) |-> [id |-> k, userId |-> s[k]]] :
        s \in {<<>>, <<"u1">>, <<"u1", "u1">>, <<"u2">>}}

PreferenceTables == {<<>>, <<[userId |-> "u1", data |-> "d1"]>>}

Init ==
    /\ applications \in Histories
    /\ cvs \in CvTables
    /\ jobPreferences \in PreferenceTables
    /\ catalogue \in SeqsUpTo(JobPostings, MaxJobs)
    /\ emails = {}
    /\ auto = [i \in Inv |-> Idle]
    /\ apply = ApplyIdle
    /\ post = [i \in Inv |-> PostIdle]
    /\ users = [u \in Users |-> [plan |-> "free"]]
    /\ upload = UploadIdle
    /\ extract = <<>>
    /\ parse = ParseIdle

Next ==
    \/ AutoApplyStart(1)
    \/ AutoApplyPreferences(1)
    \/ AutoApplyCvs(1)
    \/ AutoApplySearch(1)
    \/ AutoApplyFails(1)
    \/ AutoApplyHistory(1)
    \/ AutoApplyCreate(1)
    \/ AutoApplySend(1)
    \/ AutoApplyUpdate(1)
    \/ AutoApplyCaught(1)

Spec == Init /\ [][Next]_vars

\* An auto-apply invocation over any of the small databases in which nobody has
\* applied yet.
InitLive ==
    /\ applications = <<>>
    /\ cvs \in CvTables
    /\ jobPreferences \in PreferenceTables
    /\ catalogue \in SeqsUpTo(JobPostings, MaxJobs)
    /\ emails = {}
    /\ auto = [i \in Inv |-> Idle]
    /\ apply = ApplyIdle
    /\ post = [i \in Inv |-> PostIdle]
    /\ users = [u \in Users |-> [plan |-> "free"]]
    /\ upload = UploadIdle
    /\ extract = <<>>
    /\ parse = ParseIdle

\* The invocation when every awaited collaborator call returns or throws: once
\* the request is in, a step that can be taken is taken in the end.
SpecLive == InitLive /\ [][Next]_vars /\ WF_vars(auto[1].pc # "idle" /\ Next)

\* Two auto-apply invocations whose awaits interleave, over a small database:
\* u1 has preferences and one CV, nobody has applied yet, and the provider
\* holds acme's posting, or acme's and globex's, each with a contact email.
InitRace ==
    /\ applications = <<>>
    /\ cvs = <<[id |-> 1, userId |-> "u1"]>>
    /\ jobPreferences = <<[userId |-> "u1", data |-> "d1"]>>
    /\ catalogue \in
          {<<[company |-> "acme", title |-> "dev", contactEmail |-> TRUE]>>,
           <<[company |-> "acme", title |-> "dev", contactEmail |-> TRUE],
             [company |-> "globex", title |-> "dev", contactEmail |-> TRUE]>>}
    /\ emails = {}
    /\ auto = [i \in Inv |-> Idle]
    /\ apply = ApplyIdle
    /\ post = [i \in Inv |-> PostIdle]
    /\ users = [u \in Users |-> [plan |-> "free"]]
    /\ upload = UploadIdle
    /\ extract = <<>>
    /\ parse = ParseIdle

NextRace ==
    \E i \in Inv :
        \/ AutoApplyStart(i)
        \/ AutoApplyPreferences(i)
        \/ AutoApplyCvs(i)
        \/ AutoApplySearch(i)
        \/ AutoApplyFails(i)
        \/ AutoApplyHistory(i)
        \/ AutoApplyCreate(i)
        \/ AutoApplySend(i)
        \/ AutoApplyUpdate(i)
        \/ AutoApplyCaught(i)

SpecRace == InitRace /\ [][NextRace]_vars

\* POST /api/jobs/apply requests, one after the other, from an empty history.
InitApply ==
    /\ applications = <<>>
    /\ cvs \in CvTables
    /\ jobPreferences = <<>>
    /\ catalogue = <<>>
    /\ emails = {}
    /\ auto = [i \in Inv |-> Idle]
    /\ apply = ApplyIdle
    /\ post = [i \in Inv |-> PostIdle]
    /\ users = [u \in Users |-> [plan |-> "free"]]
    /\ upload = UploadIdle
    /\ extract = <<>>
    /\ parse = ParseIdle

NextApply ==
    \/ ApplyStart
    \/ ApplyCvs
    \/ ApplySend
    \/ ApplyCreate
    \/ ApplyFails

SpecApply == InitApply /\ [][NextApply]_vars

\* Two job-preferences POST requests whose awaits interleave.
InitPrefs ==
    /\ applications = <<>>
    /\ cvs = <<>>
    /\ jobPreferences \in PreferenceTables
    /\ catalogue = <<>>
    /\ emails = {}
    /\ auto = [i \in Inv |-> Idle]
    /\ apply = ApplyIdle
    /\ post = [i \in Inv |-> PostIdle]
    /\ users = [u \in Users |-> [plan |-> "free"]]
    /\ upload = UploadIdle
    /\ extract = <<>>
    /\ parse = ParseIdle

NextPrefs ==
    \E i \in Inv :
        \/ PostStart(i)
        \/ PostGet(i)
        \/ PostUpdate(i)
        \/ PostCreate(i)
        \/ PostFails(i)

SpecPrefs == InitPrefs /\ [][NextPrefs]_vars

\* One auto-apply invocation, started from the dashboard or by a request made
\* directly, for users on any plan; u1 has preferences and one CV.
InitQuota ==
    /\ applications = <<>>
    /\ cvs = <<[id |-> 1, userId |-> "u1"]>>
    /\ jobPreferences = <<[userId |-> "u1", data |-> "d1"]>>
    /\ catalogue \in SeqsUpTo(JobPostings, MaxJobs)
    /\ emails = {}
    /\ auto = [i \in Inv |-> Idle]
    /\ apply = ApplyIdle
    /\ post = [i \in Inv |-> PostIdle]
    /\ users \in [Users -> [plan : Plans]]
    /\ upload = UploadIdle
    /\ extract = <<>>
    /\ parse = ParseIdle

NextQuota ==
    \/ handleAutoApply(1)
    \/ AutoApplyStart(1)
    \/ AutoApplyPreferences(1)
    \/ AutoApplyCvs(1)
    \/ AutoApplySearch(1)
    \/ AutoApplyFails(1)
    \/ AutoApplyHistory(1)
    \/ AutoApplyCreate(1)
    \/ AutoApplySend(1)
    \/ AutoApplyUpdate(1)
    \/ AutoApplyCaught(1)

SpecQuota == InitQuota /\ [][NextQuota]_vars

\* The history an earlier invocation leaves when its send to acme reported
\* failure (the row was updated to "failed" with the error), followed by n
\* later applications of u1 to globex.
FailedHistory(n) ==
    [k \in 1..(1 + n) |->
        IF k = 1
        THEN [Earlier(1, "u1", "acme") EXCEPT !.status = "failed", !.responseData = "error"]
        ELSE Earlier(k, "u1", "globex")]

\* A later auto-apply invocation over such a history: u1 has preferences and
\* one CV.
InitRetry ==
    /\ applications \in {FailedHistory(n) : n \in {0, DefaultLimit - 1, DefaultLimit}}
    /\ cvs = <<[id |-> 1, userId |-> "u1"]>>
    /\ jobPreferences = <<[userId |-> "u1", data |-> "d1"]>>
    /\ catalogue \in SeqsUpTo(JobPostings, MaxJobs)
    /\ emails = {}
    /\ auto = [i \in Inv |-> Idle]
    /\ apply = ApplyIdle
    /\ post = [i \in Inv |-> PostIdle]
    /\ users = [u \in Users |-> [plan |-> "free"]]
    /\ upload = UploadIdle
    /\ extract = <<>>
    /\ parse = ParseIdle

SpecRetry == InitRetry /\ [][Next]_vars

\* What the provider returns for a broad search: DefaultLimit + 1 postings of
\* acme with a contact email, their titles all different (numbered), and then
\* the first posting once more.
ManyPostings ==
    [k \in 1..(DefaultLimit + 2) |->
        [company |-> "acme",
         title |-> ToString(IF k = DefaultLimit + 2 THEN 1 ELSE k),
         contactEmail |-> TRUE]]

\* One auto-apply invocation started from the dashboard, over that catalogue:
\* u1 has preferences and one CV and has not applied yet.
InitLong ==
    /\ applications = <<>>
    /\ cvs = <<[id |-> 1, userId |-> "u1"]>>
    /\ jobPreferences = <<[userId |-> "u1", data |-> "d1"]>>
    /\ catalogue = ManyPostings
    /\ emails = {}
    /\ auto = [i \in Inv |-> Idle]
    /\ apply = ApplyIdle
    /\ post = [i \in Inv |-> PostIdle]
    /\ users = [u \in Users |-> [plan |-> "free"]]
    /\ upload = UploadIdle
    /\ extract = <<>>
    /\ parse = ParseIdle

\* The runs of the invocation in which no collaborator raises and every send
\* succeeds.
NextLong ==
    \/ handleAutoApply(1)
    \/ AutoApplyPreferences(1)
    \/ AutoApplyCvs(1)
    \/ AutoApplySearch(1)
    \/ AutoApplyHistory(1)
    \/ AutoApplyCreate(1)
    \/ AutoApplySend(1) /\ auto'[1].applicationCount = auto[1].applicationCount + 1

SpecLong == InitLong /\ [][NextLong]_vars

\* The database and the requests at rest, and no parser call made yet: what the
\* parser and upload specifications start from.
AtRest ==
    /\ applications = <<>>
    /\ cvs = <<>>
    /\ jobPreferences = <<>>
    /\ catalogue = <<>>
    /\ emails = {}
    /\ auto = [i \in Inv |-> Idle]
    /\ apply = ApplyIdle
    /\ post = [i \in Inv |-> PostIdle]
    /\ users = [u \in Users |-> [plan |-> "free"]]
    /\ upload = UploadIdle
    /\ extract = <<>>
    /\ parse = ParseIdle

\* Calls of extractDataFromText, one after the other, on the sample texts.
SpecExtract == AtRest /\ [][ExtractCall]_vars

\* Calls of parseCV, one after the other, with any MIME type, on a file that
\* holds one of the sample texts, exists or not, and can be read or not.
NextParser ==
    \/ ParseCVCall
    \/ ParseCVRead
    \/ ParseCVReadFails

SpecParser == AtRest /\ [][NextParser]_vars

\* Upload requests, one after the other, into an empty cvs table.
NextUpload ==
    \/ UploadRequest
    \/ ParseCVRead
    \/ ParseCVReadFails
    \/ UploadParsed
    \/ UploadCreate
    \/ UploadFails

SpecUpload == AtRest /\ [][NextUpload]_vars

\* ------------------------------------------------------- what the claims read
InLoop(i) == auto[i].pc \in {"history", "create", "send", "update"}

PastSearch(i) == InLoop(i) \/ (auto[i].pc = "done" /\ auto[i].idx >= 1)

RowsBy(i) == {k \in 1..Len(applications) : applications[k].by = i}

EmailsBy(i) == {e \in emails : e.by = i}

Successes(i) == {e \in emails : e.by = i /\ e.result = "success"}

\* C1: in one auto-apply invocation, the Application rows it created whose status
\* is "sent" never outnumber maxApplications, whatever the email and storage
\* collaborators do (succeed, report failure, raise).
C1_SentRowsWithinCap ==
    \A i \in Inv :
        auto[i].pc # "idle" =>
            Cardinality({k \in RowsBy(i) : applications[k].status = "sent"})
                <= auto[i].maxApplications

\* C2: auto-apply creates no Application row and sends no email for a posting
\* whose (company, title) is among the user's prior applications, however many
\* prior applications the user has.
C2_SkipsAlreadyApplied ==
    /\ \A k \in 1..Len(applications) :
          applications[k].by # 0 => ~applications[k].dup
    /\ \A e \in emails : ~applications[e.application].dup

\* C3: auto-apply stops once maxApplications successful sends are recorded or the
\* postings are exhausted: a posting is processed only while fewer than
\* maxApplications sends have succeeded, nothing is read, created or sent once
\* the count has reached the cap, the 200 response comes exactly at the cap or at
\* the end of the list, and postings are taken one by one in the order the
\* search returned them.
C3_StopsAtCap ==
    /\ [](\A i \in Inv :
            /\ auto[i].applicationCount = Cardinality(Successes(i))
            /\ InLoop(i) =>
                  /\ auto[i].applicationCount < auto[i].maxApplications
                  /\ auto[i].idx \in 1..Len(auto[i].jobs)
            /\ PastSearch(i) =>
                  /\ auto[i].jobs = Take(catalogue, 2 * auto[i].maxApplications)
                  /\ auto[i].applicationCount >= auto[i].maxApplications
                        => auto[i].pc = "done"
                  /\ (auto[i].pc = "done" /\ auto[i].res.code = 200) =>
                        \/ auto[i].applicationCount >= auto[i].maxApplications
                        \/ auto[i].idx > Len(auto[i].jobs)
            /\ \A e \in EmailsBy(i) :
                  /\ e.idx <= auto[i].idx
                  /\ e.company = auto[i].jobs[e.idx].company
                  /\ e.jobTitle = auto[i].jobs[e.idx].title
                  /\ \A f \in EmailsBy(i) :
                        e.idx < f.idx => e.application < f.application)
    /\ [][\A i \in Inv :
            PastSearch(i) =>
                /\ auto'[i].jobs = auto[i].jobs
                /\ auto'[i].idx \in {auto[i].idx, auto[i].idx + 1}
                /\ auto[i].applicationCount >= auto[i].maxApplications =>
                      /\ auto'[i] = auto[i]
                      /\ RowsBy(i)' = RowsBy(i)
                      /\ EmailsBy(i)' = EmailsBy(i)]_vars

\* C3 witness: the invocation has answered at the cap with a posting left over.
C3_Witness ==
    \E i \in Inv :
        /\ auto[i].pc = "done" /\ auto[i].res.code = 200
        /\ auto[i].maxApplications >= 1
        /\ auto[i].applicationCount = auto[i].maxApplications
        /\ auto[i].idx <= Len(auto[i].jobs)

\* C4: whenever the email collaborator reports a send as unsuccessful, the row
\* created for that posting ends with status "failed" and a responseData carrying
\* the error, and the posting is not counted among the applications sent.
C4_FailedSendRecorded ==
    \A e \in emails :
        (e.result = "failure" /\ auto[e.by].idx > e.idx) =>
            /\ applications[e.application].status = "failed"
            /\ applications[e.application].responseData = "error"
            /\ e.application \notin Range(auto[e.by].applications)

\* C5: no error raised while one posting is processed (history read, insert,
\* send, status update) aborts the batch: the error is caught, the loop goes on
\* to the next posting exactly as after any other iteration, and the request
\* ends with the 200 response; a 500 can only come from before the loop.
C5_NoErrorAbortsBatch ==
    /\ [](\A i \in Inv :
            /\ auto[i].caught > 0 => auto[i].res.code \in {0, 200}
            /\ auto[i].res.code = 500 =>
                  auto[i].idx = 0 /\ auto[i].fault \in {"prefs", "cvs", "search"}
            /\ (PastSearch(i) /\ auto[i].pc = "done") => auto[i].res.code = 200)
    /\ [][\A i \in Inv :
            (InLoop(i) /\ auto'[i].caught > auto[i].caught) =>
                /\ auto'[i].idx = auto[i].idx + 1
                /\ auto'[i].applicationCount = auto[i].applicationCount
                /\ IF auto'[i].idx <= Len(auto[i].jobs)
                   THEN auto'[i].pc = "history" /\ auto'[i].res.code = 0
                   ELSE auto'[i].pc = "done" /\ auto'[i].res.code = 200]_vars

\* C5 witness: a send raised an error, a later posting was still applied to, and
\* the request ended with the 200 response.
C5_Witness ==
    \E i \in Inv :
        /\ auto[i].pc = "done" /\ auto[i].res.code = 200
        /\ auto[i].caught >= 1
        /\ \E e, f \in EmailsBy(i) :
              e.result = "threw" /\ f.result = "success" /\ e.idx < f.idx

\* C6: an auto-apply invocation for a user with no CV on file makes no job
\* search, creates no Application row and sends no email; it ends with HTTP 400
\* (unless the preferences or CV read itself raised, which is a 500), and once
\* the CV read has returned the answer is the missing-CV 400.
C6_NoCvPrecondition ==
    \A i \in Inv :
        (auto[i].pc # "idle" /\ GetUserCvs(auto[i].userId) = <<>>) =>
            /\ ~auto[i].searched
            /\ RowsBy(i) = {} /\ EmailsBy(i) = {}
            /\ auto[i].pc \in {"prefs", "cvs", "done"}
            /\ (auto[i].pc = "done" /\ auto[i].fault = "none") => auto[i].res.code = 400
            /\ auto[i].fault \in {"none", "prefs", "cvs"}
            /\ (auto[i].cvLoaded /\ auto[i].fault = "none") =>
                  /\ auto[i].pc = "done"
                  /\ auto[i].res.message = "No CV found. Please upload a CV first."

\* C6 witness: a user with preferences and no CV got the missing-CV 400.
C6_Witness ==
    \E i \in Inv :
        /\ auto[i].pc = "done" /\ auto[i].cvLoaded
        /\ GetUserCvs(auto[i].userId) = <<>>
        /\ auto[i].res.code = 400
        /\ auto[i].res.message = "No CV found. Please upload a CV first."

\* C7: an auto-apply invocation for a user with no stored preferences ends with
\* the missing-preferences 400 once the preferences read has returned, before
\* anything else: no CV is loaded, no search made, no row created, no email sent.
C7_NoPreferencesFirst ==
    \A i \in Inv :
        (auto[i].pc # "idle" /\ GetUserJobPreferences(auto[i].userId) = {0}) =>
            /\ ~auto[i].cvLoaded /\ ~auto[i].searched
            /\ RowsBy(i) = {} /\ EmailsBy(i) = {}
            /\ auto[i].pc \in {"prefs", "done"}
            /\ auto[i].pc = "done" =>
                  \/ /\ auto[i].res.code = 400
                     /\ auto[i].res.message = "Please set job preferences first"
                  \/ auto[i].res.code = 500 /\ auto[i].fault = "prefs"

\* C7 witness: a user with neither preferences nor a CV got the
\* missing-preferences 400.
C7_Witness ==
    \E i \in Inv :
        /\ auto[i].pc = "done"
        /\ GetUserJobPreferences(auto[i].userId) = {0}
        /\ GetUserCvs(auto[i].userId) = <<>>
        /\ auto[i].res.code = 400
        /\ auto[i].res.message = "Please set job preferences first"

\* C8: nothing protects auto-apply against a concurrent invocation of the same
\* user: an invocation that has passed its already-applied check inserts its row
\* when createApplication returns, whatever rows the table holds by then, so two
\* interleaved invocations can both apply to the same posting (C8_Witness).
C8_NoDoubleApplyProtection ==
    [][\A i \in Inv :
         (auto[i].pc = "create" /\ auto'[i].pc = "send") =>
             LET job == auto[i].jobs[auto[i].idx]
                 n == Len(applications')
             IN  /\ n = Len(applications) + 1
                 /\ auto'[i].application = n
                 /\ applications'[n].by = i
                 /\ applications'[n].userId = auto[i].userId
                 /\ applications'[n].company = job.company
                 /\ applications'[n].jobTitle = job.title
                 /\ applications'[n].status = "sent"]_vars

\* C8 witness: both invocations passed the already-applied check for the same
\* posting of the same user while no row for it existed, and each created a row
\* and sent an email for it.
C8_Witness ==
    \E k1, k2 \in 1..Len(applications) :
        /\ applications[k1].by = 1 /\ applications[k2].by = 2
        /\ ~applications[k1].dup /\ ~applications[k2].dup
        /\ applications[k1].userId = applications[k2].userId
        /\ applications[k1].company = applications[k2].company
        /\ applications[k1].jobTitle = applications[k2].jobTitle
        /\ \E e1, e2 \in emails :
              /\ e1.application = k1 /\ e1.result = "success"
              /\ e2.application = k2 /\ e2.result = "success"

\* C9: in every reachable state every Application row's status is one of sent,
\* pending, responded, failed.
C9_StatusInEnum ==
    \A k \in 1..Len(applications) : applications[k].status \in Statuses

\* C10: at most one JobPreferences row exists per user in every reachable state,
\* also when two POST job-preferences requests of one user interleave.
C10_OnePreferencesRowPerUser ==
    \A u \in Users :
        Cardinality({k \in 1..Len(jobPreferences) : jobPreferences[k].userId = u}) <= 1

\* C11: within auto-apply an Application row changes at most once after its
\* creation: every change of a row takes it from "sent" to "failed" with the
\* error payload, is made by the invocation that created the row, for the posting
\* it is at, after that row's send was reported unsuccessful; a row counted as a
\* successful application never changes.
C11_RowUpdatedAtMostOnce ==
    /\ [][\A k \in 1..Len(applications) :
            /\ Len(applications') >= Len(applications)
            /\ applications'[k] # applications[k] =>
                  LET i == applications[k].by
                  IN  /\ i \in Inv
                      /\ auto[i].pc = "update" /\ auto[i].application = k
                      /\ applications[k].status = "sent"
                      /\ applications[k].responseData = "null"
                      /\ applications'[k] = [applications[k] EXCEPT
                                               !.status = "failed",
                                               !.responseData = "error"]
                      /\ \E e \in EmailsBy(i) :
                            e.application = k /\ e.result = "failure"
                      /\ k \notin Range(auto[i].applications)]_vars
    /\ [](\A i \in Inv : \A n \in 1..Len(auto[i].applications) :
            LET k == auto[i].applications[n]
            IN  /\ applications[k].status = "sent"
                /\ applications[k].responseData = "null"
                /\ applications[k].by = i)

\* C11 witness: a row of the invocation went from "sent" to "failed" after its
\* send failed, next to a prior row left as it was.
C11_Witness ==
    \E i \in Inv : \E e \in EmailsBy(i) :
        /\ e.result = "failure"
        /\ applications[e.application].status = "failed"
        /\ applications[e.application].responseData = "error"
        /\ auto[i].pc = "done"
        /\ \E k \in 1..Len(applications) :
              applications[k].by = 0 /\ applications[k].status = "sent"

\* The user's most recently uploaded CV (the greatest id: ids follow uploadedAt).
LatestCvOf(userId) ==
    CHOOSE c \in Range(cvs) :
        /\ c.userId = userId
        /\ \A d \in Range(cvs) : d.userId = userId => d.id <= c.id

\* C12: every email sent by one auto-apply invocation attaches the first CV of
\* the list loaded at the start of the invocation, which is the user's most
\* recently uploaded CV; all emails of the invocation attach the same CV.
C12_LatestCvAttached ==
    \A i \in Inv : \A e \in EmailsBy(i) :
        /\ e.cv = auto[i].userCvs[1].id
        /\ auto[i].userCvs[1].userId = auto[i].userId
        /\ e.cv = LatestCvOf(auto[i].userId).id
        /\ \A f \in EmailsBy(i) : f.cv = e.cv

\* C12 witness: the user has two CVs and two emails went out with the later one.
C12_Witness ==
    \E i \in Inv : \E e, f \in EmailsBy(i) :
        /\ e.idx # f.idx
        /\ Len(auto[i].userCvs) = 2
        /\ e.cv = 2 /\ f.cv = 2

\* C13: auto-apply skips a posting that has no contact email: the step that
\* finds it creates no row, sends no email and leaves the count as it is, and
\* goes on to the next posting; rows are created and emails sent only for
\* postings that carry a contact email.
C13_SkipsWithoutContactEmail ==
    /\ [](\A i \in Inv :
            /\ auto[i].pc \in {"create", "send", "update"} =>
                  auto[i].jobs[auto[i].idx].contactEmail
            /\ \A e \in EmailsBy(i) : auto[i].jobs[e.idx].contactEmail
            /\ \A k \in RowsBy(i) :
                  \E n \in 1..Min(auto[i].idx, Len(auto[i].jobs)) :
                      /\ auto[i].jobs[n].contactEmail
                      /\ auto[i].jobs[n].company = applications[k].company
                      /\ auto[i].jobs[n].title = applications[k].jobTitle)
    /\ [][\A i \in Inv :
            (auto[i].pc = "history" /\ ~auto[i].jobs[auto[i].idx].contactEmail) =>
                /\ applications' = applications
                /\ emails' = emails
                /\ auto'[i].applicationCount = auto[i].applicationCount
                /\ auto'[i].applications = auto[i].applications
                /\ auto'[i].idx \in {auto[i].idx, auto[i].idx + 1}
                /\ auto'[i].pc \in {"history", "done"}]_vars

\* C13 witness: a posting without contact email that the user never applied to
\* was gone through, and the invocation ended with no row and no email.
C13_Witness ==
    \E i \in Inv :
        /\ auto[i].pc = "done" /\ auto[i].res.code = 200
        /\ auto[i].caught = 0
        /\ Len(auto[i].jobs) >= 1
        /\ \A n \in 1..Len(auto[i].jobs) : ~auto[i].jobs[n].contactEmail
        /\ applications = <<>> /\ emails = {}

\* C14: the 200 response of auto-apply reports jobsFound = the number of
\* postings the search returned and applications = the number of sends that
\* returned success in this invocation, so applications <= min(maxApplications,
\* jobsFound).
C14_ResponseCounts ==
    \A i \in Inv :
        auto[i].res.code = 200 =>
            /\ auto[i].res.jobsFound = Len(auto[i].jobs)
            /\ auto[i].res.jobsFound = Len(SearchJobs(2 * auto[i].maxApplications))
            /\ auto[i].res.applications = Cardinality(Successes(i))
            /\ auto[i].res.applications
                  <= Min(auto[i].maxApplications, auto[i].res.jobsFound)

\* C14 witness: a 200 response reporting one application out of two postings
\* found, the other posting having been gone through without a successful send.
C14_Witness ==
    \E i \in Inv :
        /\ auto[i].res.code = 200
        /\ auto[i].res.applications = 1
        /\ auto[i].res.jobsFound = 2
        /\ auto[i].idx = 3

\* C15: the plan of the user bounds what auto-apply sends for them: from the
\* moment an invocation has read its request, its cap is the quota of the plan
\* in that user's row (free 5, starter 50, professional 100, enterprise 500),
\* and it never has more successful applications than that quota.
C15_PlanBoundsApplications ==
    \A i \in Inv :
        auto[i].pc # "idle" =>
            /\ auto[i].maxApplications = PlanQuota(users[auto[i].userId].plan)
            /\ Cardinality(Successes(i)) <= PlanQuota(users[auto[i].userId].plan)

ParsingFailedWords ==
    <<"p", "a", "r", "s", "i", "n", "g", " ", "f", "a", "i", "l", "e", "d">>

\* The supported MIME types: the ones parseCV dispatches to a text extractor.
Supported(mimeType) ==
    mimeType \in {ApplicationPdf, ApplicationMsword, ApplicationDocx}

\* The degraded result: a summary that contains "parsing failed", the
\* placeholder name, and empty skills, experience and education lists.
IsDegraded(data) ==
    /\ data.summary # None
    /\ Includes(data.summary[1], ParsingFailedWords)
    /\ data.name = Some(CvUpload)
    /\ data.skills = Some(<<>>)
    /\ data.experience = Some(<<>>)
    /\ data.education = Some(<<>>)

\* C16: parseCV always resolves and never rejects; when the MIME type is
\* unsupported, the file is missing or reading it fails, what it resolves with
\* is the degraded result.
C16_ParseCVAlwaysResolves ==
    /\ parse.outcome # "rejected"
    /\ parse.pc = "settled" =>
          /\ parse.outcome = "resolved"
          /\ (~parse.exists \/ ~Supported(parse.mimeType) \/ parse.readFailed)
                => IsDegraded(parse.value)

\* A supported file that exists but cannot be read: parseCV has settled.
C16_Witness ==
    /\ parse.pc = "settled"
    /\ parse.exists
    /\ Supported(parse.mimeType)
    /\ parse.readFailed
    /\ IsDegraded(parse.value)

\* The Cv rows that the upload request in hand has inserted.
RowsOfUpload == {k \in 1..Len(cvs) : cvs[k].by = upload.n}

\* C17: an upload request that carries a file and a userId never fails because
\* of parsing: whatever parseCV met, the request answers 200 with the cv and the
\* parsed data, having created exactly one Cv row that holds that data (only a
\* failure of createCv itself answers 500, and then no row exists).  A request
\* without a file or without a userId answers 400 and creates no row.
C17_UploadNeverFailsOnParsing ==
    /\ upload.fault # "parseCV"
    /\ Cardinality(RowsOfUpload) <= 1
    /\ (upload.pc = "done" /\ ~upload.rejected) =>
          IF upload.file = None \/ upload.userId = None
          THEN upload.res.code = 400 /\ RowsOfUpload = {}
          ELSE \/ /\ upload.fault = "createCv"
                  /\ upload.res.code = 500
                  /\ RowsOfUpload = {}
               \/ /\ upload.fault = "none"
                  /\ upload.res.code = 200
                  /\ upload.parsedData # None
                  /\ upload.res.parsedData = upload.parsedData
                  /\ \E k \in RowsOfUpload :
                        /\ RowsOfUpload = {k}
                        /\ cvs[k].parsedData = upload.parsedData[1]
                        /\ cvs[k].userId = upload.userId[1]
                        /\ upload.res.cv = Some(cvs[k])

\* An upload whose parse failed has answered 200 with the degraded data.
C17_Witness ==
    /\ upload.pc = "done"
    /\ upload.res.code = 200
    /\ IsDegraded(upload.res.parsedData[1])
    /\ RowsOfUpload # {}

\* C18: a file whose MIME type is not PDF/DOC/DOCX, or whose size exceeds 10MB,
\* is refused before the handler runs: parseCV is not invoked for the request,
\* no Cv row is created and the request does not succeed; so every call of
\* parseCV that upload makes carries one of the three supported MIME types.
C18_RejectsBeforeParsing ==
    /\ parse.pc # "idle" => Supported(parse.mimeType)
    /\ (/\ upload.file # None
        /\ \/ ~Supported(upload.file[1].mimetype)
           \/ FileSize(upload.file[1]) > 10 * 1024 * 1024)
          => /\ upload.pc = "done"
             /\ ~upload.parsed
             /\ RowsOfUpload = {}
             /\ upload.res.code # 200

\* A PDF one byte over the limit, sent with a userId, has been refused.
C18_Witness ==
    /\ upload.pc = "done"
    /\ upload.file # None
    /\ upload.userId # None
    /\ upload.file[1].mimetype = ApplicationPdf
    /\ FileSize(upload.file[1]) > 10 * 1024 * 1024
    /\ upload.rejected

Matches(regex, line) == \E i \in 0..Len(line) : MatchAt(regex, line, i) # NoMatch

\* The name as stated: the first non-empty trimmed line that matches neither
\* pattern, is under 50 characters and has at most 4 space-separated tokens.
StatedName(text) ==
    LET lines == NonEmptyLines(text)
        qualifying == {k \in 1..Len(lines) :
                          /\ ~Matches("emailRegex", lines[k])
                          /\ ~Matches("phoneRegex", lines[k])
                          /\ Len(lines[k]) < 50
                          /\ Len(Split(lines[k], " ")) <= 4}
    IN  IF qualifying = {} THEN None ELSE Some(lines[SetMin(qualifying)])

\* C20: the inferred name is the first non-empty trimmed line that matches
\* neither the email nor the phone pattern, is under 50 characters and has at
\* most 4 space-separated tokens, and is absent when no line qualifies; so a
\* line that holds an email address or a phone match is never the name.
C20_NameIsFirstQualifyingLine ==
    \A a \in 1..Len(extract) : extract[a].data.name = StatedName(extract[a].text)

\* Two characters that are equal up to the case of a letter.
SameLetter(c, d) ==
    c = d \/ \E j \in 1..Len(UpperCase) : {c, d} = {UpperCase[j], LowerCase[j]}

\* The keyword occurs in the text as a substring, whatever the case.
Occurs(keyword, text) ==
    \E k \in 0..(Len(text) - Len(keyword)) :
        \A j \in 1..Len(keyword) : SameLetter(text[k + j], keyword[j])

\* C21: the skills list of every call has no duplicates, holds only members of
\* the fixed keyword list, holds exactly the keywords that occur in the text
\* as case-insensitive substrings, and lists them in the order of the keyword
\* list, whatever their order in the text.
C21_SkillsAreTheKeywordsFound ==
    \A a \in 1..Len(extract) :
        LET skills == extract[a].data.skills[1]
            At(s) == CHOOSE k \in 1..Len(skillKeywords) : skillKeywords[k] = s
        IN  /\ extract[a].data.skills # None
            /\ \A i \in 1..Len(skills), j \in 1..Len(skills) :
                  i # j => skills[i] # skills[j]
            /\ Range(skills) \subseteq Range(skillKeywords)
            /\ \A k \in 1..Len(skillKeywords) :
                  skillKeywords[k] \in Range(skills)
                      <=> Occurs(skillKeywords[k], extract[a].text)
            /\ \A i \in 1..Len(skills), j \in 1..Len(skills) :
                  i < j => At(skills[i]) < At(skills[j])

\* The CV that names SQL before React, in capitals, has been parsed: three
\* skills were found.
C21_Witness ==
    \E a \in 1..Len(extract) :
        /\ extract[a].text = FullCv
        /\ Len(extract[a].data.skills[1]) = 3

\* The text names the file and its size in bytes.
NamesFileAndSize(text, filePath, buffer) ==
    /\ Includes(text, BaseName(filePath))
    /\ Includes(text, Str(Len(buffer)) \o <<" ", "b", "y", "t", "e", "s">>)

\* C22 as stated: whatever the type, field inference receives the placeholder
\* exactly when the decoded text is shorter than 50 characters, and the decoded
\* text itself otherwise.
C22_PlaceholderIffShort ==
    (parse.pc = "settled" /\ parse.text # None) =>
        IF Len(parse.buffer) < 50
        THEN /\ parse.text[1] # parse.buffer
             /\ NamesFileAndSize(parse.text[1], parse.filePath, parse.buffer)
        ELSE parse.text[1] = parse.buffer

\* C22 amended: for a PDF the placeholder is substituted exactly when the
\* decoded text is shorter than 50 characters; for DOC and DOCX exactly when it
\* is shorter than 50 characters or holds no space; any other decoded text
\* reaches field inference unchanged.
C22_PlaceholderIffShortOrUnspacedWord ==
    (parse.pc = "settled" /\ parse.text # None) =>
        IF \/ Len(parse.buffer) < 50
           \/ /\ parse.mimeType \in {ApplicationMsword, ApplicationDocx}
              /\ \A k \in 1..Len(parse.buffer) : parse.buffer[k] # " "
        THEN /\ parse.text[1] # parse.buffer
             /\ NamesFileAndSize(parse.text[1], parse.filePath, parse.buffer)
        ELSE parse.text[1] = parse.buffer

\* A Word document of 50 characters without a space has been replaced by the
\* placeholder.
C22_Witness ==
    /\ parse.pc = "settled"
    /\ parse.mimeType = ApplicationDocx
    /\ parse.buffer = Unspaced
    /\ parse.text # None
    /\ parse.text[1] # parse.buffer
    /\ NamesFileAndSize(parse.text[1], parse.filePath, parse.buffer)

\* C23: when an auto-apply invocation has ended, every Application row that it
\* created and that still has status "sent" belongs to an email send that
\* returned success; a send that raised, or a failed send whose status update
\* raised, leaves no row with status "sent".
C23_SentRowsWereSent ==
    \A i \in Inv :
        auto[i].pc = "done" =>
            \A k \in RowsBy(i) :
                applications[k].status = "sent" =>
                    \E e \in Successes(i) : e.application = k

\* C24: within one auto-apply invocation at most one Application row is
\* created, and at most one email sent, for each (company, title), also when
\* the search results hold a posting more than once and whatever the cap.
C24_OneRowPerPosting ==
    \A i \in Inv :
        /\ \A k \in RowsBy(i), l \in RowsBy(i) :
              (/\ applications[k].company = applications[l].company
               /\ applications[k].jobTitle = applications[l].jobTitle) => k = l
        /\ \A e \in EmailsBy(i), f \in EmailsBy(i) :
              (e.company = f.company /\ e.jobTitle = f.jobTitle) => e = f

\* C25: a posting whose send failed is never attempted again: while a row with
\* status "failed" that precedes an invocation stands for a user's (company,
\* title), that invocation creates no row and sends no email for it.
C25_FailedIsNeverRetried ==
    \A i \in Inv :
        \A k \in 1..Len(applications) :
            (/\ applications[k].status = "failed"
             /\ applications[k].by = 0
             /\ applications[k].userId = auto[i].userId) =>
                /\ \A l \in RowsBy(i) :
                      ~(/\ applications[l].company = applications[k].company
                        /\ applications[l].jobTitle = applications[k].jobTitle)
                /\ \A e \in EmailsBy(i) :
                      ~(/\ e.company = applications[k].company
                        /\ e.jobTitle = applications[k].jobTitle)

\* C26: a step of an auto-apply invocation changes only Application rows that
\* the invocation created itself: every row it did not create (rows that were
\* there before it, rows of other users) stays as it is, and so do all User, Cv
\* and JobPreferences rows.
C26_ChangesOnlyOwnRows ==
    [][\A i \in Inv :
          auto'[i] # auto[i] =>
              /\ users' = users
              /\ cvs' = cvs
              /\ jobPreferences' = jobPreferences
              /\ Len(applications') >= Len(applications)
              /\ \A k \in 1..Len(applications) :
                    applications[k].by # i => applications'[k] = applications[k]
              /\ \A k \in (Len(applications) + 1)..Len(applications') :
                    applications'[k].by = i]_vars

\* The invocation has marked a row of its own "failed" while its user had
\* earlier rows.
C26_Witness ==
    \E i \in Inv :
        /\ \E k \in RowsBy(i) : applications[k].status = "failed"
        /\ \E k \in 1..Len(applications) :
              applications[k].by = 0 /\ applications[k].userId = auto[i].userId

\* C27: manual apply with method email sends first and persists second: the
\* insert is reached only from a send that has just returned success; the table
\* changes only by the one insert that answers 200; an answer of 400 (no CV) or
\* 500 (the send reported failure) creates no row and changes none.
C27_SendsFirstPersistsSecond ==
    [][/\ (/\ apply'.pc = "create"
           /\ apply.pc # "create"
           /\ apply'.applicationData.applicationMethod = "email") =>
              /\ apply.pc = "send"
              /\ \E e \in emails' :
                    /\ e.result = "success"
                    /\ e.company = apply.applicationData.company
                    /\ e.jobTitle = apply.applicationData.jobTitle
                    /\ emails' = emails \cup {e}
       /\ applications' # applications =>
              /\ apply.pc = "create"
              /\ apply'.pc = "done"
              /\ apply'.code = 200
              /\ Len(applications') = Len(applications) + 1
              /\ \A k \in 1..Len(applications) : applications'[k] = applications[k]
       /\ (apply'.pc = "done" /\ apply'.code \in {400, 500}) =>
              applications' = applications]_vars

\* An email application has been answered 200 with its row inserted, and
\* a later one whose send reported failure has been answered 500.
C27_Witness ==
    /\ apply.pc = "done"
    /\ apply.code = 500
    /\ Len(apply.userCvs) > 0
    /\ \E e \in emails : e.result = "failure"
    /\ \E k \in 1..Len(applications) :
          /\ applications[k].applicationMethod = "email"
          /\ \E e \in emails :
                e.result = "success" /\ e.company = applications[k].company

\* C28: for every user, in every reachable state, getUserApplicationStats
\* returns total = sent + pending + responded + failed.
C28_StatsAddUp ==
    \A u \in Users :
        LET stats == GetUserApplicationStats(u)
        IN  stats.total = stats.sent + stats.pending + stats.responded + stats.failed

\* C29: every auto-apply invocation, once started, ends with a response (400,
\* 500, or 200 with counts) when each collaborator call returns or throws; the
\* response is the only one (after it the invocation does nothing more); and
\* the loop goes through the postings once, each iteration taking a posting
\* further down the list than the one before.
C29_Terminates ==
    /\ \A i \in Inv :
          (auto[i].pc # "idle") ~>
              (auto[i].pc = "done" /\ auto[i].res.code \in {200, 400, 500})
    /\ [][\A i \in Inv :
             /\ auto[i].pc = "done" => auto'[i] = auto[i]
             /\ (auto'[i].pc = "history" /\ auto[i].pc # "idle") =>
                   /\ auto'[i].idx > auto[i].idx
                   /\ auto'[i].idx <= Len(auto'[i].jobs)
                   /\ auto'[i].jobs = IF auto[i].pc = "search"
                                      THEN auto'[i].jobs ELSE auto[i].jobs]_vars

\* The invocation has answered 200 after going through two postings.
C29_Witness ==
    \E i \in Inv :
        /\ auto[i].pc = "done"
        /\ auto[i].res.code = 200
        /\ Len(auto[i].jobs) = 2
        /\ auto[i].idx = 3

====
